---- MODULE Spec2Model ----
(***************************************************************************)
(* Profile resolution engine of identity-customer-data-service.            *)
(*                                                                         *)
(* CreateOrUpdateProfile (service package) is modelled step by step: one   *)
(* action per storage interaction of a call, so that concurrent calls      *)
(* interleave exactly at the points where the Go code talks to the         *)
(* database.  The lock (database.PostgresLock), the profile repository     *)
(* (InsertProfile, GetProfile) and the constants package are not part of   *)
(* the available sources; they are modelled from the specification         *)
(* (sections 4.1, 4.2 and 6): a session-scoped named lock keyed by the     *)
(* profile identifier, insert-if-absent, and reads that may lag a write.   *)
(*                                                                         *)
(* conn is a *sql.Conn of Go's database/sql.  Conn.Close() "returns the    *)
(* connection to the connection pool": the database session behind it is   *)
(* terminated only when the pool discards the connection (bad connection,  *)
(* idle limit reached, lifetime expired).  Both outcomes are modelled.     *)
(***************************************************************************)
EXTENDS Integers, Sequences, FiniteSets, TLC

\* ---------------------------------------------------------------- bounds
\* Number of request goroutines that may run calls concurrently.
NumProcs == 2

\* Number of injected failures (storage errors, failed release, crash).
MaxFaults == 1

\* constants.MaxRetryAttempts, used at part_001:35 and part_001:69.
MaxRetryAttempts == 2

Procs == 1..NumProcs

\* Database sessions.  A call uses one connection for its whole duration, so
\* one pool slot per goroutine is enough; sessions are interchangeable, and
\* goroutine p is always handed slot p (a change of slot is a renaming).
Sessions == 1..NumProcs

NoSession == 0

ProfileIds == {"p1", "p2"}

\* ------------------------------------------------------------ data model
\* models.Profile with its ProfileHierarchy flattened.
MkProfile(pid, isParent, parentId, attrs, traits, appData) ==
    [profileId |-> pid, isParent |-> isParent, listProfile |-> TRUE,
     parentProfileId |-> parentId, identityAttributes |-> attrs,
     traits |-> traits, applicationData |-> appData]

\* Skeleton with the hierarchy role left at its zero value.
SkeletonNotParent(pid) ==
    [profileId |-> pid, isParent |-> FALSE, listProfile |-> TRUE,
     parentProfileId |-> "", identityAttributes |-> {},
     traits |-> {}, applicationData |-> <<>>]

\* The profile value CreateOrUpdateProfile hands to InsertProfile.
Skeleton(pid) ==
    [profileId |-> pid, isParent |-> TRUE, listProfile |-> TRUE,
     parentProfileId |-> "", identityAttributes |-> {},
     traits |-> {}, applicationData |-> <<>>]

\* A profile that earlier events have enriched.
StoredParent(pid) == MkProfile(pid, TRUE, "", {"email"}, {"a"}, <<"x">>)

StoredChild(pid, parentId) == MkProfile(pid, FALSE, parentId, {"phone"}, {"c"}, <<"y">>)

NoProfile == [profileId |-> ""]

\* The stores the service can be started on: every identifier is absent, a
\* parent, or a child of a stored parent.  Identifiers are interchangeable,
\* so of the stores that differ only by renaming one is kept: "p1" is stored
\* before "p2" is, and a child is "p2".
InitialStores ==
    { st \in [ProfileIds -> {"absent", "parent", "child"}] :
        /\ st["p1"] # "child"
        /\ st["p2"] # "absent" => st["p1"] = "parent" }

ParentOf(st, k) == CHOOSE q \in ProfileIds \ {k} : st[q] = "parent"

InitialRows(st) ==
    [k \in ProfileIds |->
        CASE st[k] = "absent" -> <<>>
          [] st[k] = "parent" -> <<StoredParent(k)>>
          [] st[k] = "child"  -> <<StoredChild(k, ParentOf(st, k))>>]

VARIABLES
    pc,          \* position of each goroutine in CreateOrUpdateProfile
    id,          \* event.ProfileId of the goroutine's current call
    conn,        \* the session behind the call's *sql.Conn
    attempts,    \* lock.Acquire calls made by the current call
    reads,       \* GetProfile calls made by waitForProfile
    hits,        \* GetProfile calls of waitForProfile that returned a row
    inserted,    \* whether the call has called InsertProfile
    result,      \* what the call returns: [kind, profile]
    sess,        \* state of every database session
    lockOwner,   \* named lock table: the session holding each key
    rows,        \* profiles table: the rows stored under each identifier
    faults       \* failures injected so far

vars == <<pc, id, conn, attempts, reads, hits, inserted, result,
          sess, lockOwner, rows, faults>>

\* The identifiers of one parent/child group, for the read and delete paths:
\* a parent and up to two children.
HierarchyIds == {"P", "C1", "C2"}

VARIABLES
    profiles,    \* profiles table seen by GetProfile / DeleteProfile (service)
    childRefs,   \* child list stored with each parent (FetchChildProfiles)
    events,      \* event store: the identifiers that events refer to
    hpc,         \* position of each goroutine in its read or delete call
    hop,         \* the operation the goroutine is running
    hid,         \* the ProfileId the operation was called with
    fetched,     \* profile: the row the call read for hid
    master,      \* masterProfile / parentProfile: the parent row the call read
    kids,        \* the ChildProfiles the call fetched and still has to handle
    pending,     \* existingProfiles rows a list call still has to handle
    hresult      \* what the call returns

hvars == <<profiles, childRefs, events, hpc, hop, hid, fetched, master, kids,
           pending, hresult>>

\* What a read or delete call returns: a kind, the profile with its child
\* list (resolve), the entries (list calls), and the return statement it
\* came from (the position of the call when it returned).
NoHResult == [kind |-> "none", profile |-> NoProfile, childProfiles |-> <<>>,
              entries |-> <<>>, from |-> ""]

\* No read or delete call is running and none has run.
HierarchyCallsAtRest ==
    /\ hpc = [p \in Procs |-> "idle"]
    /\ hop = [p \in Procs |-> "none"]
    /\ hid = [p \in Procs |-> ""]
    /\ fetched = [p \in Procs |-> NoProfile]
    /\ master = [p \in Procs |-> NoProfile]
    /\ kids = [p \in Procs |-> <<>>]
    /\ pending = [p \in Procs |-> <<>>]
    /\ hresult = [p \in Procs |-> NoHResult]

\* The hierarchy store is empty.
HierarchyStoreEmpty ==
    /\ profiles = [k \in HierarchyIds |-> NoProfile]
    /\ childRefs = [k \in HierarchyIds |-> <<>>]
    /\ events = {}

\* The locals of the filter rewrite of GetAllProfilesWithFilter (Step 2 and
\* Step 3) and of one call of parseTypedValueForFilters.
VARIABLES
    rewrite,     \* [filters, rules, next, updatedFilters] of the rewrite loop
    typed        \* [valueType, raw, at, parsed, valueStr] of one translation

tvars == <<rewrite, typed>>

\* No filter is being rewritten and no value translated.
TextAtRest ==
    /\ rewrite = [filters |-> <<>>, rules |-> {}, next |-> 1,
                  updatedFilters |-> <<>>]
    /\ typed = [valueType |-> "", raw |-> <<>>, at |-> "idle",
                parsed |-> [type |-> "none"], valueStr |-> <<>>]

NoResult == [kind |-> "none", profile |-> NoProfile]

Init ==
    /\ pc = [p \in Procs |-> "idle"]
    /\ id = [p \in Procs |-> ""]
    /\ conn = [p \in Procs |-> NoSession]
    /\ attempts = [p \in Procs |-> 0]
    /\ reads = [p \in Procs |-> 0]
    /\ hits = [p \in Procs |-> 0]
    /\ inserted = [p \in Procs |-> FALSE]
    /\ result = [p \in Procs |-> NoResult]
    /\ sess = [s \in Sessions |-> "closed"]
    /\ lockOwner = [k \in ProfileIds |-> NoSession]
    /\ \E st \in InitialStores : rows = InitialRows(st)
    /\ faults = 0
    /\ HierarchyCallsAtRest
    /\ HierarchyStoreEmpty
    /\ TextAtRest

\* ------------------------------------------------- storage collaborators
\* An injected failure is allowed while the budget lasts.
CanFail == faults < MaxFaults

\* LockKey with one lock name for every profile.
LockKeyShared(pid) == "p1"

\* lockIdentifier := event.ProfileId
LockKey(pid) == pid

\* acquireNamedLock(session, key): granted when the key is free, or held by
\* the asking session itself (a pooled session that kept the lock).
CanLock(s, key) == lockOwner[key] \in {NoSession, s}

\* The lock table after session s has taken key.
LockTaken(s, key) == [lockOwner EXCEPT ![key] = s]

\* releaseNamedLock(session, key): the key is free again if the session
\* held it.
LockReleased(s, key) ==
    IF lockOwner[key] = s THEN [lockOwner EXCEPT ![key] = NoSession] ELSE lockOwner

\* OwnerAfterEnd for a lock that outlives its session.
OwnerAfterEndKept(S) == lockOwner

\* A terminated session loses every lock it holds.
OwnerAfterEnd(S) ==
    [k \in ProfileIds |-> IF lockOwner[k] \in S THEN NoSession ELSE lockOwner[k]]

\* insertProfile(Profile): insert-if-absent on profileId.
InsertProfile(table, profile) ==
    IF table[profile.profileId] = <<>>
    THEN [table EXCEPT ![profile.profileId] = <<profile>>]
    ELSE table

\* getProfile(profileId): the stored row; nothing when the row is absent or
\* not yet visible on the read path; or an error and no row.
GetProfileResults(pid) ==
    {"nil", "err"} \cup (IF rows[pid] = <<>> THEN {} ELSE {"row"})

\* ------------------------------------------------ CreateOrUpdateProfile
Active == {"acquire", "insert", "wait", "release", "close"}

\* Between a successful lock.Acquire and the deferred lock.Release.
Locked == {"insert", "wait", "release"}

\* attempts, reads, hits and inserted record what the call has done; each is
\* dropped once the code is past the point where it matters (attempts when
\* the call goes on to InsertProfile, reads and hits when the deferred
\* release starts, the rest on return).
\* The call returns: its locals are gone, its result and the identifier it
\* was called with remain.
Returned(p) ==
    /\ attempts' = [attempts EXCEPT ![p] = 0]
    /\ reads' = [reads EXCEPT ![p] = 0]
    /\ hits' = [hits EXCEPT ![p] = 0]
    /\ inserted' = [inserted EXCEPT ![p] = FALSE]
    /\ conn' = [conn EXCEPT ![p] = NoSession]
    /\ pc' = [pc EXCEPT ![p] = "done"]

FreshCall(p, k) ==
    /\ id' = [id EXCEPT ![p] = k]
    /\ attempts' = [attempts EXCEPT ![p] = 0]
    /\ reads' = [reads EXCEPT ![p] = 0]
    /\ hits' = [hits EXCEPT ![p] = 0]
    /\ inserted' = [inserted EXCEPT ![p] = FALSE]

\* The call is entered and postgresDB.DB.Conn(ctx) hands out a pooled
\* session or opens a new one; conn.Close() is deferred.
Start(p) ==
    /\ pc[p] \in {"idle", "done"}
    /\ \E k \in ProfileIds :
        /\ FreshCall(p, k)
        /\ conn' = [conn EXCEPT ![p] = p]
        /\ sess' = [sess EXCEPT ![p] = "busy"]
        /\ result' = [result EXCEPT ![p] = NoResult]
        /\ pc' = [pc EXCEPT ![p] = "acquire"]
    /\ UNCHANGED <<lockOwner, rows, faults>>
    /\ UNCHANGED hvars
    /\ UNCHANGED tvars

\* DB.Conn fails: "failed to get DB connection", nothing is deferred yet.
StartConnError(p) ==
    /\ pc[p] \in {"idle", "done"}
    /\ CanFail
    /\ \E k \in ProfileIds : FreshCall(p, k)
    /\ result' = [result EXCEPT ![p] = [kind |-> "connError", profile |-> NoProfile]]
    /\ pc' = [pc EXCEPT ![p] = "done"]
    /\ faults' = faults + 1
    /\ UNCHANGED <<conn, sess, lockOwner, rows>>
    /\ UNCHANGED hvars
    /\ UNCHANGED tvars

\* AfterAcquireLoop without the "if !acquired" return.
AfterAcquireLoopUnchecked(acquired) == "insert"

\* Where the call goes once the retry loop is over.
AfterAcquireLoop(acquired) == IF acquired THEN "insert" ELSE "close"

\* RetriesExhausted with the loop condition written i <= MaxRetryAttempts.
RetriesExhaustedOffByOne(n) == n > MaxRetryAttempts

\* The loop condition i < MaxRetryAttempts, seen after n attempts.
RetriesExhausted(n) == n >= MaxRetryAttempts

\* One iteration of the retry loop: lock.Acquire is granted.
AcquireGranted(p) ==
    /\ pc[p] = "acquire"
    /\ CanLock(conn[p], LockKey(id[p]))
    /\ lockOwner' = LockTaken(conn[p], LockKey(id[p]))
    /\ attempts' = [attempts EXCEPT ![p] = @ + 1]
    /\ pc' = [pc EXCEPT ![p] = AfterAcquireLoop(TRUE)]
    /\ UNCHANGED <<id, conn, reads, hits, inserted, result, sess, rows, faults>>
    /\ UNCHANGED hvars
    /\ UNCHANGED tvars

\* One iteration of the retry loop: lock.Acquire is denied; the call sleeps
\* and retries, or gives up after the last attempt.
AcquireDenied(p) ==
    /\ pc[p] = "acquire"
    /\ ~CanLock(conn[p], LockKey(id[p]))
    /\ attempts' = [attempts EXCEPT ![p] = @ + 1]
    /\ IF RetriesExhausted(attempts[p] + 1)
       THEN /\ pc' = [pc EXCEPT ![p] = AfterAcquireLoop(FALSE)]
            /\ result' = [result EXCEPT ![p] =
                   [kind |-> "lockTimeout", profile |-> NoProfile]]
       ELSE UNCHANGED <<pc, result>>
    /\ UNCHANGED <<id, conn, reads, hits, inserted, sess, lockOwner,
                   rows, faults>>
    /\ UNCHANGED hvars
    /\ UNCHANGED tvars

\* lock.Acquire itself returns an error: "lock acquisition error".
AcquireError(p) ==
    /\ pc[p] = "acquire"
    /\ CanFail
    /\ attempts' = [attempts EXCEPT ![p] = @ + 1]
    /\ pc' = [pc EXCEPT ![p] = "close"]
    /\ result' = [result EXCEPT ![p] = [kind |-> "lockError", profile |-> NoProfile]]
    /\ faults' = faults + 1
    /\ UNCHANGED <<id, conn, reads, hits, inserted, sess, lockOwner, rows>>
    /\ UNCHANGED hvars
    /\ UNCHANGED tvars

\* InsertOk writing the skeleton over whatever is stored.
InsertOkOverwrites(p) ==
    /\ pc[p] = "insert"
    /\ rows' = [rows EXCEPT ![id[p]] = <<Skeleton(id[p])>>]
    /\ inserted' = [inserted EXCEPT ![p] = TRUE]
    /\ attempts' = [attempts EXCEPT ![p] = 0]
    /\ pc' = [pc EXCEPT ![p] = "wait"]
    /\ UNCHANGED <<id, conn, reads, hits, result, sess, lockOwner, faults>>
    /\ UNCHANGED hvars
    /\ UNCHANGED tvars

\* profileRepo.InsertProfile(profileToUpsert) succeeds.
InsertOk(p) ==
    /\ pc[p] = "insert"
    /\ rows' = InsertProfile(rows, Skeleton(id[p]))
    /\ inserted' = [inserted EXCEPT ![p] = TRUE]
    /\ attempts' = [attempts EXCEPT ![p] = 0]
    /\ pc' = [pc EXCEPT ![p] = "wait"]
    /\ UNCHANGED <<id, conn, reads, hits, result, sess, lockOwner, faults>>
    /\ UNCHANGED hvars
    /\ UNCHANGED tvars

\* InsertError returning without the deferred release.
InsertErrorNoRelease(p) ==
    /\ pc[p] = "insert"
    /\ CanFail
    /\ inserted' = [inserted EXCEPT ![p] = TRUE]
    /\ result' = [result EXCEPT ![p] = [kind |-> "insertError", profile |-> NoProfile]]
    /\ attempts' = [attempts EXCEPT ![p] = 0]
    /\ pc' = [pc EXCEPT ![p] = "close"]
    /\ faults' = faults + 1
    /\ UNCHANGED <<id, conn, reads, hits, sess, lockOwner, rows>>
    /\ UNCHANGED hvars
    /\ UNCHANGED tvars

\* InsertProfile fails: "failed to insert or update profile".
InsertError(p) ==
    /\ pc[p] = "insert"
    /\ CanFail
    /\ inserted' = [inserted EXCEPT ![p] = TRUE]
    /\ result' = [result EXCEPT ![p] = [kind |-> "insertError", profile |-> NoProfile]]
    /\ attempts' = [attempts EXCEPT ![p] = 0]
    /\ pc' = [pc EXCEPT ![p] = "release"]
    /\ faults' = faults + 1
    /\ UNCHANGED <<id, conn, reads, hits, sess, lockOwner, rows>>
    /\ UNCHANGED hvars
    /\ UNCHANGED tvars

\* WaitReturns without the early return on a found profile.
WaitReturnsLate(found, n) == n >= MaxRetryAttempts

\* waitForProfile returns from its loop after the n-th read: at once when
\* the read found the profile, otherwise when maxRetries reads are used up.
WaitReturns(found, n) == found \/ n >= MaxRetryAttempts

\* WaitOutcome with the test for a missing profile inverted.
WaitOutcomeInverted(found, profile) ==
    IF found
    THEN [kind |-> "visibilityTimeout", profile |-> NoProfile]
    ELSE [kind |-> "profile", profile |-> profile]

\* What CreateOrUpdateProfile makes of waitForProfile's return value:
\* errWait != nil || profileFetched == nil is the "not visible" error.
WaitOutcome(found, profile) ==
    IF found
    THEN [kind |-> "profile", profile |-> profile]
    ELSE [kind |-> "visibilityTimeout", profile |-> NoProfile]

\* One iteration of waitForProfile: GetProfile returns the row.
ReadRow(p) ==
    /\ pc[p] = "wait"
    /\ "row" \in GetProfileResults(id[p])
    /\ reads' = [reads EXCEPT ![p] = @ + 1]
    /\ hits' = [hits EXCEPT ![p] = @ + 1]
    /\ IF WaitReturns(TRUE, reads[p] + 1)
       THEN /\ result' = [result EXCEPT ![p] = WaitOutcome(TRUE, Head(rows[id[p]]))]
            /\ pc' = [pc EXCEPT ![p] = "release"]
       ELSE UNCHANGED <<result, pc>>
    /\ UNCHANGED <<id, conn, attempts, inserted, sess, lockOwner,
                   rows, faults>>
    /\ UNCHANGED hvars
    /\ UNCHANGED tvars

\* One iteration of waitForProfile: GetProfile returns no row (absent, not
\* yet visible, or a read error, which is logged and retried like a miss).
ReadMiss(p) ==
    /\ pc[p] = "wait"
    /\ GetProfileResults(id[p]) \ {"row"} # {}
    /\ reads' = [reads EXCEPT ![p] = @ + 1]
    /\ IF WaitReturns(FALSE, reads[p] + 1)
       THEN /\ result' = [result EXCEPT ![p] = WaitOutcome(FALSE, NoProfile)]
            /\ pc' = [pc EXCEPT ![p] = "release"]
       ELSE UNCHANGED <<result, pc>>
    /\ UNCHANGED <<id, conn, attempts, hits, inserted, sess, lockOwner,
                   rows, faults>>
    /\ UNCHANGED hvars
    /\ UNCHANGED tvars

\* The deferred lock.Release(lockIdentifier) succeeds.
ReleaseOk(p) ==
    /\ pc[p] = "release"
    /\ lockOwner' = LockReleased(conn[p], LockKey(id[p]))
    /\ reads' = [reads EXCEPT ![p] = 0]
    /\ hits' = [hits EXCEPT ![p] = 0]
    /\ pc' = [pc EXCEPT ![p] = "close"]
    /\ UNCHANGED <<id, conn, attempts, inserted, result, sess, rows, faults>>
    /\ UNCHANGED hvars
    /\ UNCHANGED tvars

\* The deferred lock.Release fails; its error is dropped (_ = ...).
ReleaseFails(p) ==
    /\ pc[p] = "release"
    /\ CanFail
    /\ faults' = faults + 1
    /\ reads' = [reads EXCEPT ![p] = 0]
    /\ hits' = [hits EXCEPT ![p] = 0]
    /\ pc' = [pc EXCEPT ![p] = "close"]
    /\ UNCHANGED <<id, conn, attempts, inserted, result, sess, lockOwner,
                   rows>>
    /\ UNCHANGED hvars
    /\ UNCHANGED tvars

\* A pooled session that holds no lock behaves like a new one and is recorded
\* as closed; one that still holds a lock stays open, idle in the pool.
Pooled(s) == IF \E k \in ProfileIds : lockOwner[k] = s THEN "idle" ELSE "closed"

\* The deferred conn.Close() returns the connection to the pool, which keeps
\* it for reuse: the database session stays open, the call returns.
CloseToPool(p) ==
    /\ pc[p] = "close"
    /\ sess' = [sess EXCEPT ![conn[p]] = Pooled(conn[p])]
    /\ Returned(p)
    /\ UNCHANGED <<id, result, lockOwner, rows, faults>>
    /\ UNCHANGED hvars
    /\ UNCHANGED tvars

\* The deferred conn.Close() returns the connection to the pool, which
\* discards it: the database session ends, the call returns.
CloseDiscard(p) ==
    /\ pc[p] = "close"
    /\ sess' = [sess EXCEPT ![conn[p]] = "closed"]
    /\ lockOwner' = OwnerAfterEnd({conn[p]})
    /\ Returned(p)
    /\ UNCHANGED <<id, result, rows, faults>>
    /\ UNCHANGED hvars
    /\ UNCHANGED tvars

\* The pool closes an idle connection (idle limit, lifetime).
PoolEvict(s) ==
    /\ sess[s] = "idle"
    /\ sess' = [sess EXCEPT ![s] = "closed"]
    /\ lockOwner' = OwnerAfterEnd({s})
    /\ UNCHANGED <<pc, id, conn, attempts, reads, hits, inserted, result,
                   rows, faults>>
    /\ UNCHANGED hvars
    /\ UNCHANGED tvars

\* The service process dies while calls are running: no deferred function
\* runs, every connection of the process is dropped and the server ends the
\* sessions.  The process is then restarted.  Of a call that died holding
\* its lock, the identifier stays on record.
Crash ==
    /\ \E p \in Procs : pc[p] \in Active
    /\ CanFail
    /\ faults' = faults + 1
    /\ pc' = [p \in Procs |-> "idle"]
    /\ id' = [p \in Procs |-> IF pc[p] \in Locked THEN id[p] ELSE ""]
    /\ result' = [p \in Procs |->
                    IF pc[p] \in Locked
                    THEN [kind |-> "diedHoldingLock", profile |-> NoProfile]
                    ELSE NoResult]
    /\ conn' = [p \in Procs |-> NoSession]
    /\ attempts' = [p \in Procs |-> 0]
    /\ reads' = [p \in Procs |-> 0]
    /\ hits' = [p \in Procs |-> 0]
    /\ inserted' = [p \in Procs |-> FALSE]
    /\ sess' = [s \in Sessions |-> "closed"]
    /\ lockOwner' = OwnerAfterEnd(Sessions)
    /\ UNCHANGED rows
    /\ UNCHANGED hvars
    /\ UNCHANGED tvars

CallStep(p) ==
    \/ AcquireGranted(p)
    \/ AcquireDenied(p)
    \/ AcquireError(p)
    \/ InsertOk(p)
    \/ InsertError(p)
    \/ ReadRow(p)
    \/ ReadMiss(p)
    \/ ReleaseOk(p)
    \/ ReleaseFails(p)
    \/ CloseToPool(p)
    \/ CloseDiscard(p)

Next ==
    \/ \E p \in Procs : Start(p)
    \/ \E p \in Procs : StartConnError(p)
    \/ \E p \in Procs : CallStep(p)
    \/ \E s \in Sessions : PoolEvict(s)
    \/ Crash

Spec == Init /\ [][Next]_vars

\* Every started call keeps taking steps: a goroutine is never starved.
FairSpec == Spec /\ \A p \in Procs : WF_vars(CallStep(p))

TypeOK ==
    /\ pc \in [Procs -> {"idle", "done"} \cup Active]
    /\ conn \in [Procs -> Sessions \cup {NoSession}]
    /\ sess \in [Sessions -> {"closed", "busy", "idle"}]
    /\ lockOwner \in [ProfileIds -> Sessions \cup {NoSession}]
    /\ faults \in 0..MaxFaults

\* ------------------------------------------------------------- claims
\* No call is running.
Quiet == \A p \in Procs : pc[p] \in {"idle", "done"}

\* The calls between a successful lock.Acquire and the deferred release.
Holders(k) == {p \in Procs : pc[p] \in Locked /\ id[p] = k}

\* C1: for every profile identifier at most one CreateOrUpdateProfile call
\* is between its successful lock acquire and its release, in every
\* reachable state: calls for the same identifier are serialized.
C1_MutualExclusion == \A k \in ProfileIds : Cardinality(Holders(k)) <= 1

\* One call holds the lock of an identifier while another call for the same
\* identifier has been denied and is retrying.
C1_Witness ==
    \E p, q \in Procs :
        /\ p # q /\ id[p] = id[q]
        /\ pc[p] \in Locked
        /\ pc[q] = "acquire" /\ attempts[q] >= 1

\* A row that was stored before any call ran.
IsInitialRow(r) ==
    \/ r = StoredParent(r.profileId)
    \/ \E q \in ProfileIds : r = StoredChild(r.profileId, q)

\* C2: an identifier never has more than one row; a row created by
\* CreateOrUpdateProfile is a parent row (isParent and listProfile true)
\* under the identifier of the call; and once all concurrent calls for an
\* identifier have returned (no storage call having failed), the identifier
\* has exactly one row.
C2_NoDuplicateCreation ==
    \A k \in ProfileIds :
        /\ Len(rows[k]) <= 1
        /\ \A n \in 1..Len(rows[k]) :
              ~IsInitialRow(rows[k][n]) =>
                  /\ rows[k][n].profileId = k
                  /\ rows[k][n].isParent
                  /\ rows[k][n].listProfile
        /\ (faults = 0 /\ Quiet /\ (\E p \in Procs : pc[p] = "done" /\ id[p] = k))
              => Len(rows[k]) = 1

\* All goroutines have made a call for the same, initially absent,
\* identifier, all calls have returned, and the one row is there.
C2_Witness ==
    \E k \in ProfileIds :
        /\ \A p \in Procs : pc[p] = "done" /\ id[p] = k
        /\ faults = 0
        /\ rows[k] = <<Skeleton(k)>>

\* C3 as claimed, for the runs in which no storage call fails and the
\* inserted row is visible in time, so that only the interleaving of the
\* lock attempts is left open: every call that has returned has returned a
\* Profile with the identifier it was called with.
C3_AllCallsReturnProfile ==
    faults = 0 =>
        \A p \in Procs : (pc[p] = "done" /\ result[p].kind # "visibilityTimeout") =>
            /\ result[p].kind = "profile"
            /\ result[p].profile.profileId = id[p]

\* C3, amended: a call that has returned has returned either a Profile with
\* the identifier it was called with, or an error; when no storage call
\* failed the error is a lock timeout (another session held the lock at each
\* of the MaxRetryAttempts attempts) or a visibility timeout.
C3_ReturnsMatchingProfileOrError ==
    \A p \in Procs : pc[p] = "done" =>
        /\ result[p].kind \in {"profile", "connError", "lockError", "lockTimeout",
                               "insertError", "visibilityTimeout"}
        /\ result[p].kind = "profile" => result[p].profile.profileId = id[p]
        /\ result[p].kind # "profile" => result[p].profile = NoProfile
        /\ faults = 0 => result[p].kind \in {"profile", "lockTimeout", "visibilityTimeout"}

\* Two calls for the same identifier have returned, no storage call failed:
\* one with the Profile, the other with the lock timeout.
C3_Witness ==
    \E p, q \in Procs :
        /\ pc[p] = "done" /\ pc[q] = "done" /\ id[p] = id[q] /\ faults = 0
        /\ result[p].kind = "profile" /\ result[p].profile.profileId = id[p]
        /\ result[q].kind = "lockTimeout"

\* C4: a lock is held only for a call that is still running, so that once a
\* call has returned the lock of its identifier is free for the next call's
\* first attempt.
C4_LockFreeAfterReturn ==
    \A k \in ProfileIds : lockOwner[k] # NoSession =>
        \E p \in Procs : pc[p] \in Active /\ conn[p] = lockOwner[k]

\* C5: a call makes at most MaxRetryAttempts lock attempts and at most
\* MaxRetryAttempts visibility reads, gives up with the lock timeout exactly
\* after MaxRetryAttempts attempts, and every started call comes to its end
\* (it returns, or the process dies).
C5_Terminates ==
    /\ [](\A p \in Procs :
            /\ attempts[p] <= MaxRetryAttempts
            /\ reads[p] <= MaxRetryAttempts
            /\ (pc[p] = "close" /\ result[p].kind = "lockTimeout")
                  => attempts[p] = MaxRetryAttempts)
    /\ \A p \in Procs : (pc[p] \in Active) ~> (pc[p] \notin Active)

\* A call has used up its attempts without being granted the lock and is on
\* its way out with the error.
C5_Witness ==
    \E p \in Procs :
        /\ pc[p] = "close" /\ result[p].kind = "lockTimeout"
        /\ attempts[p] = MaxRetryAttempts

\* C6: a call that failed to acquire the lock (every attempt denied, or
\* lock.Acquire returned an error) goes straight to its return with the lock
\* error: it has called neither InsertProfile nor GetProfile.
C6_LockFailureTouchesNothing ==
    \A p \in Procs : result[p].kind \in {"lockTimeout", "lockError"} =>
        /\ pc[p] \in {"close", "done"}
        /\ ~inserted[p]
        /\ reads[p] = 0
        /\ result[p].profile = NoProfile

\* A call has returned the lock timeout while the identifier has no row.
C6_Witness ==
    \E p \in Procs :
        /\ pc[p] = "done" /\ result[p].kind = "lockTimeout"
        /\ rows[id[p]] = <<>>

\* C7: a lock is held only by an open session; a session that has ended
\* (discarded by the pool, or dropped when the process crashed) holds no lock.
C7_LockOnlyWhileSessionOpen ==
    \A k \in ProfileIds : lockOwner[k] # NoSession => sess[lockOwner[k]] # "closed"

\* A call died with the process while it held the lock of an identifier,
\* and a call of the restarted process holds the lock of that identifier.
C7_Witness ==
    \E p, q \in Procs :
        /\ pc[p] = "idle" /\ result[p].kind = "diedHoldingLock"
        /\ pc[q] \in Locked /\ id[q] = id[p]
        /\ lockOwner[id[q]] = conn[q]

C9_VisibilityOutcome ==
    \A p \in Procs :
        /\ reads[p] <= MaxRetryAttempts
        /\ hits[p] <= 1
        /\ pc[p] = "wait" => hits[p] = 0 /\ reads[p] < MaxRetryAttempts
        /\ (pc[p] = "release" /\ result[p].kind = "profile") =>
              /\ hits[p] = 1
              /\ reads[p] \in 1..MaxRetryAttempts
              /\ rows[id[p]] # <<>>
              /\ result[p].profile = Head(rows[id[p]])
        /\ (pc[p] = "release" /\ result[p].kind = "visibilityTimeout") =>
              hits[p] = 0 /\ reads[p] = MaxRetryAttempts
        /\ pc[p] = "release" =>
              result[p].kind \in {"profile", "visibilityTimeout", "insertError"}
        /\ pc[p] = "done" => result[p].kind # "none"
        /\ (pc[p] = "done" /\ result[p].kind = "profile") =>
              result[p].profile # NoProfile

\* The row was not visible to the first read and was returned by the second.
C9_Witness ==
    \E p \in Procs :
        /\ pc[p] = "release" /\ result[p].kind = "profile"
        /\ reads[p] = 2 /\ hits[p] = 1

\* A step taken by a CreateOrUpdateProfile call: every such step moves the
\* call on or counts an attempt or a read.
CallMoves == pc' # pc \/ attempts' # attempts \/ reads' # reads

\* C10: no step of CreateOrUpdateProfile changes or duplicates a row that is
\* already stored: the row of an existing identifier (parent or child, with
\* its traits, identityAttributes and applicationData) stays as it is.
C10_ExistingRowUnchanged ==
    [][CallMoves => \A k \in ProfileIds : rows[k] # <<>> => rows'[k] = rows[k]]_vars

\* A call for an identifier stored as a child is past its InsertProfile and
\* the child row is as it was.
C10_Witness ==
    \E p \in Procs :
        /\ pc[p] = "wait" /\ inserted[p]
        /\ rows[id[p]] = <<StoredChild(id[p], "p1")>>

\* ------------------------------------------ hierarchy: stores and storage
\* The read and delete paths (GetProfile, GetAllProfiles,
\* GetAllProfilesWithFilter, DeleteProfile of the service package) work on
\* one parent/child group.  The repositories behind them are not part of the
\* available sources and are modelled from the specification (section 6).

\* The child lists a stored parent "P" can start with.
InitialChildLists == {<<>>, <<"C1">>, <<"C1", "C2">>}

\* The identifiers in a sequence of child references.
Range(seq) == {seq[i] : i \in 1..Len(seq)}

\* A consistent store: "P" is a parent, its listed children are stored and
\* name it; every stored profile has events.
InitialProfiles(cs) ==
    [k \in HierarchyIds |->
        IF k = "P" THEN StoredParent(k)
        ELSE IF k \in Range(cs) THEN StoredChild(k, "P") ELSE NoProfile]

InitialChildRefs(cs) == [k \in HierarchyIds |-> IF k = "P" THEN cs ELSE <<>>]

Stored(k) == profiles[k] # NoProfile

\* No CreateOrUpdateProfile call is running and its table is empty.
CreateCallsAtRest ==
    /\ pc = [p \in Procs |-> "idle"]
    /\ id = [p \in Procs |-> ""]
    /\ conn = [p \in Procs |-> NoSession]
    /\ attempts = [p \in Procs |-> 0]
    /\ reads = [p \in Procs |-> 0]
    /\ hits = [p \in Procs |-> 0]
    /\ inserted = [p \in Procs |-> FALSE]
    /\ result = [p \in Procs |-> NoResult]
    /\ sess = [s \in Sessions |-> "closed"]
    /\ lockOwner = [k \in ProfileIds |-> NoSession]
    /\ rows = [k \in ProfileIds |-> <<>>]

createVars == <<pc, id, conn, attempts, reads, hits, inserted, result,
                sess, lockOwner, rows>>

HierarchyInit ==
    /\ CreateCallsAtRest
    /\ TextAtRest
    /\ faults = 0
    /\ HierarchyCallsAtRest
    /\ \/ HierarchyStoreEmpty
       \/ \E cs \in InitialChildLists :
            /\ profiles = InitialProfiles(cs)
            /\ childRefs = InitialChildRefs(cs)
            /\ events = {k \in HierarchyIds : InitialProfiles(cs)[k] # NoProfile}

\* A storage call succeeds, or fails while the failure budget lasts.
StorageOutcomes == IF CanFail THEN {TRUE, FALSE} ELSE {TRUE}

Charged(ok) == faults' = IF ok THEN faults ELSE faults + 1

\* getProfile(profileId): the stored row or nothing; nothing and an error
\* when the call fails.
RepoGetProfile(k, ok) == IF ok THEN profiles[k] ELSE NoProfile

\* fetchChildProfiles(parentId): the parent's child list; nothing and an
\* error when the call fails.
FetchChildProfiles(k, ok) == IF ok THEN childRefs[k] ELSE <<>>

\* fetchApplicationData(profileId): the profile's application data; nothing
\* and an error when the call fails.
FetchApplicationData(k, ok) ==
    IF ok /\ Stored(k) THEN profiles[k].applicationData ELSE <<>>

\* deleteProfile(profileId): removes the row, and with it the child list
\* kept in the row's hierarchy; idempotent.
RowDeleted(k) == [profiles EXCEPT ![k] = NoProfile]

RefsAfterDelete(k) == [childRefs EXCEPT ![k] = <<>>]

\* detachChildProfileFromParent(parentId, childId): the child is taken out
\* of the parent's child list.
RefsAfterDetach(parentId, childId) ==
    [childRefs EXCEPT ![parentId] = SelectSeq(@, LAMBDA c : c # childId)]

\* DeleteEventsByProfileId(profileId).
EventsDeleted(k) == events \ {k}

\* ------------------------------------------------ hierarchy: call frame
HIdle == {"idle", "done"}

\* The call returns res: its locals are gone; the operation, the identifier
\* it was called with and the result remain.
HReturn(p, res) ==
    /\ hpc' = [hpc EXCEPT ![p] = "done"]
    /\ hresult' = [hresult EXCEPT ![p] =
                      [res EXCEPT !.from = IF hpc[p] \in HIdle THEN "entry" ELSE hpc[p]]]
    /\ fetched' = [fetched EXCEPT ![p] = NoProfile]
    /\ master' = [master EXCEPT ![p] = NoProfile]
    /\ kids' = [kids EXCEPT ![p] = <<>>]
    /\ pending' = [pending EXCEPT ![p] = <<>>]

\* The call is entered with operation op and identifier k.
HEnter(p, op, k) ==
    /\ hpc[p] \in HIdle
    /\ hop' = [hop EXCEPT ![p] = op]
    /\ hid' = [hid EXCEPT ![p] = k]

HFailure(kind) == [NoHResult EXCEPT !.kind = kind]

\* DeleteProfile returns nil.
HSuccess == [NoHResult EXCEPT !.kind = "ok"]

HProfile(profile, cs) ==
    [NoHResult EXCEPT !.kind = "profile", !.profile = profile, !.childProfiles = cs]

StoreUnchanged == UNCHANGED <<profiles, childRefs, events>>

\* ------------------------------------------------- GetProfile (service)
\* The merged view of lines 104-105: ParentProfileID is set to the master's
\* own ProfileId, then ProfileId to the requested profile's.
MergedView(m, requested) ==
    LET m1 == [m EXCEPT !.parentProfileId = m.profileId]
    IN  [m1 EXCEPT !.profileId = requested.profileId]

\* AfterTargetRead without the test for a missing profile.
AfterTargetReadUnchecked(row) ==
    IF row # NoProfile /\ ~row.isParent THEN "r_master" ELSE "profile"

\* What GetProfile does with the row it read for ProfileId (lines 84-95):
\* no row is the not-found ClientError, a parent is returned as it is, a
\* child goes on to its master.
AfterTargetRead(row) ==
    IF row = NoProfile THEN "notFound"
    ELSE IF row.isParent THEN "profile" ELSE "r_master"

\* GetProfile is entered and profileRepo.GetProfile(ProfileId) is called;
\* its error is dropped (profile, _ := ...).
GetProfile(p) ==
    \E k \in HierarchyIds, ok \in StorageOutcomes :
        LET row == RepoGetProfile(k, ok)
            to  == AfterTargetRead(row)
        IN  /\ HEnter(p, "resolve", k)
            /\ Charged(ok)
            /\ IF to = "r_master"
               THEN /\ hpc' = [hpc EXCEPT ![p] = to]
                    /\ fetched' = [fetched EXCEPT ![p] = row]
                    /\ hresult' = [hresult EXCEPT ![p] = NoHResult]
                    /\ UNCHANGED <<master, kids, pending>>
               ELSE HReturn(p, IF to = "notFound" THEN HFailure("notFound")
                                                  ELSE HProfile(row, <<>>))
            /\ StoreUnchanged
            /\ UNCHANGED createVars
            /\ UNCHANGED tvars

\* masterProfile, err := profileRepo.GetProfile(ParentProfileID), line 97.
\* The next statement (line 100) writes through masterProfile before err or
\* masterProfile is tested: with no master row it is a nil dereference.
GetProfileMaster(p) ==
    /\ hpc[p] = "r_master"
    /\ \E ok \in StorageOutcomes :
        LET m == RepoGetProfile(fetched[p].parentProfileId, ok)
        IN  /\ Charged(ok)
            /\ IF m = NoProfile
               THEN HReturn(p, HFailure("nilDereference"))
               ELSE /\ master' = [master EXCEPT ![p] = m]
                    /\ hpc' = [hpc EXCEPT ![p] = "r_app"]
                    /\ UNCHANGED <<hresult, fetched, kids, pending>>
    /\ StoreUnchanged
    /\ UNCHANGED <<hop, hid>>
    /\ UNCHANGED createVars
    /\ UNCHANGED tvars

\* masterProfile.ApplicationData, _ = FetchApplicationData(...), line 100.
GetProfileApplicationData(p) ==
    /\ hpc[p] = "r_app"
    /\ \E ok \in StorageOutcomes :
        /\ Charged(ok)
        /\ master' = [master EXCEPT ![p].applicationData =
                          FetchApplicationData(master[p].profileId, ok)]
    /\ hpc' = [hpc EXCEPT ![p] = "r_kids"]
    /\ StoreUnchanged
    /\ UNCHANGED <<hop, hid, hresult, fetched, kids, pending>>
    /\ UNCHANGED createVars
    /\ UNCHANGED tvars

\* ChildProfiles, _ = FetchChildProfiles(...), the two overwrites, and the
\* return of the merged master (lines 103-114).
GetProfileChildren(p) ==
    /\ hpc[p] = "r_kids"
    /\ \E ok \in StorageOutcomes :
        /\ Charged(ok)
        /\ HReturn(p, HProfile(MergedView(master[p], fetched[p]),
                               FetchChildProfiles(master[p].profileId, ok)))
    /\ StoreUnchanged
    /\ UNCHANGED <<hop, hid>>
    /\ UNCHANGED createVars
    /\ UNCHANGED tvars

\* ---------------------------------------------- DeleteProfile (service)
\* The positions at which DeleteProfile(ProfileId) of the repository is the
\* last storage call: solo parent (line 148), parent after its children
\* (line 173), only child after its parent (line 188), detached child
\* (line 197).
OwnRowPositions == {"d_solo", "d_master", "d_only2", "d_self"}

\* AfterDeleteRead with a missing profile reported as an error, the way the
\* loop over the children reports a missing child.
AfterDeleteReadAbsentIsError(row) ==
    IF row = NoProfile THEN "serverError" ELSE "d_events"

\* What DeleteProfile does with the row it read (lines 127-134): with no
\* profile the call logs and returns nil, before err is looked at.
AfterDeleteRead(row) == IF row = NoProfile THEN "ok" ELSE "d_events"

\* DeleteProfile is entered and the profile is fetched (lines 126-134).
DeleteProfile(p) ==
    \E k \in HierarchyIds, ok \in StorageOutcomes :
        LET row == RepoGetProfile(k, ok)
            to  == AfterDeleteRead(row)
        IN  /\ HEnter(p, "delete", k)
            /\ Charged(ok)
            /\ IF to # "d_events"
               THEN HReturn(p, IF to = "ok" THEN HSuccess ELSE HFailure(to))
               ELSE /\ hpc' = [hpc EXCEPT ![p] = to]
                    /\ fetched' = [fetched EXCEPT ![p] = row]
                    /\ hresult' = [hresult EXCEPT ![p] = NoHResult]
                    /\ UNCHANGED <<master, kids, pending>>
            /\ StoreUnchanged
            /\ UNCHANGED createVars
            /\ UNCHANGED tvars

\* eventRepo.DeleteEventsByProfileId(ProfileId), lines 137-139.
DeleteEvents(p) ==
    /\ hpc[p] = "d_events"
    /\ \E ok \in StorageOutcomes :
        /\ Charged(ok)
        /\ IF ok
           THEN /\ events' = EventsDeleted(hid[p])
                /\ hpc' = [hpc EXCEPT ![p] =
                              IF fetched[p].isParent THEN "d_kids" ELSE "d_parent"]
                /\ UNCHANGED <<hresult, fetched, master, kids, pending>>
           ELSE /\ HReturn(p, HFailure("serverError"))
                /\ UNCHANGED events
    /\ UNCHANGED <<profiles, childRefs, hop, hid>>
    /\ UNCHANGED createVars
    /\ UNCHANGED tvars

\* Which branch a parent takes on the child list it fetched (lines 146, 155).
ParentBranch(cs) == IF Len(cs) = 0 THEN "d_solo" ELSE "d_childget"

\* ChildProfiles, _ = FetchChildProfiles(profile.ProfileId), line 143.
DeleteFetchChildren(p) ==
    /\ hpc[p] = "d_kids"
    /\ \E ok \in StorageOutcomes :
        LET cs == FetchChildProfiles(hid[p], ok)
        IN  /\ Charged(ok)
            /\ kids' = [kids EXCEPT ![p] = cs]
            /\ hpc' = [hpc EXCEPT ![p] = ParentBranch(cs)]
    /\ StoreUnchanged
    /\ UNCHANGED <<hop, hid, hresult, fetched, master, pending>>
    /\ UNCHANGED createVars
    /\ UNCHANGED tvars

\* profileRepo.GetProfile(childProfile.ChildProfileId) in the loop over the
\* children, lines 158-166: no child row ends the call with an error.
DeleteChildGet(p) ==
    /\ hpc[p] = "d_childget"
    /\ \E ok \in StorageOutcomes :
        /\ Charged(ok)
        /\ IF RepoGetProfile(Head(kids[p]), ok) = NoProfile
           THEN HReturn(p, HFailure("serverError"))
           ELSE /\ hpc' = [hpc EXCEPT ![p] = "d_childdel"]
                /\ UNCHANGED <<hresult, fetched, master, kids, pending>>
    /\ StoreUnchanged
    /\ UNCHANGED <<hop, hid>>
    /\ UNCHANGED createVars
    /\ UNCHANGED tvars

\* profileRepo.DeleteProfile(childProfile.ChildProfileId), lines 167-170;
\* after the last child the loop ends and the master is next.
DeleteChildRow(p) ==
    /\ hpc[p] = "d_childdel"
    /\ \E ok \in StorageOutcomes :
        /\ Charged(ok)
        /\ IF ok
           THEN /\ profiles' = RowDeleted(Head(kids[p]))
                /\ childRefs' = RefsAfterDelete(Head(kids[p]))
                /\ kids' = [kids EXCEPT ![p] = Tail(@)]
                /\ hpc' = [hpc EXCEPT ![p] =
                              IF Tail(kids[p]) = <<>> THEN "d_master" ELSE "d_childget"]
                /\ UNCHANGED <<hresult, fetched, master, pending>>
           ELSE /\ HReturn(p, HFailure("serverError"))
                /\ UNCHANGED <<profiles, childRefs>>
    /\ UNCHANGED <<events, hop, hid>>
    /\ UNCHANGED createVars
    /\ UNCHANGED tvars

\* parentProfile, err := profileRepo.GetProfile(ParentProfileID), line 182.
\* Line 183 reads parentProfile.ProfileId before anything is tested: with no
\* parent row it is a nil dereference.
DeleteFetchParent(p) ==
    /\ hpc[p] = "d_parent"
    /\ \E ok \in StorageOutcomes :
        LET m == RepoGetProfile(fetched[p].parentProfileId, ok)
        IN  /\ Charged(ok)
            /\ IF m = NoProfile
               THEN HReturn(p, HFailure("nilDereference"))
               ELSE /\ master' = [master EXCEPT ![p] = m]
                    /\ hpc' = [hpc EXCEPT ![p] = "d_pkids"]
                    /\ UNCHANGED <<hresult, fetched, kids, pending>>
    /\ StoreUnchanged
    /\ UNCHANGED <<hop, hid>>
    /\ UNCHANGED createVars
    /\ UNCHANGED tvars

\* Which branch a child takes on the child list of its parent (line 185).
ChildBranch(cs) == IF Len(cs) = 1 THEN "d_only1" ELSE "d_detach"

\* ChildProfiles, _ = FetchChildProfiles(parentProfile.ProfileId), line 183.
DeleteFetchSiblings(p) ==
    /\ hpc[p] = "d_pkids"
    /\ \E ok \in StorageOutcomes :
        LET cs == FetchChildProfiles(master[p].profileId, ok)
        IN  /\ Charged(ok)
            /\ kids' = [kids EXCEPT ![p] = cs]
            /\ hpc' = [hpc EXCEPT ![p] = ChildBranch(cs)]
    /\ StoreUnchanged
    /\ UNCHANGED <<hop, hid, hresult, fetched, master, pending>>
    /\ UNCHANGED createVars
    /\ UNCHANGED tvars

\* err = profileRepo.DeleteProfile(ParentProfileID), line 187: err is
\* assigned again on line 188 before it is read.
DeleteOnlyChildParent(p) ==
    /\ hpc[p] = "d_only1"
    /\ \E ok \in StorageOutcomes :
        /\ Charged(ok)
        /\ IF ok
           THEN /\ profiles' = RowDeleted(fetched[p].parentProfileId)
                /\ childRefs' = RefsAfterDelete(fetched[p].parentProfileId)
           ELSE UNCHANGED <<profiles, childRefs>>
    /\ hpc' = [hpc EXCEPT ![p] = "d_only2"]
    /\ UNCHANGED <<events, hop, hid, hresult, fetched, master, kids, pending>>
    /\ UNCHANGED createVars
    /\ UNCHANGED tvars

\* DeleteDetach that takes every child out of the parent's list.
DeleteDetachAll(p) ==
    /\ hpc[p] = "d_detach"
    /\ \E ok \in StorageOutcomes :
        /\ Charged(ok)
        /\ IF ok
           THEN /\ childRefs' = [childRefs EXCEPT ![fetched[p].parentProfileId] = <<>>]
                /\ hpc' = [hpc EXCEPT ![p] = "d_self"]
                /\ UNCHANGED <<hresult, fetched, master, kids, pending>>
           ELSE /\ HReturn(p, HFailure("serverError"))
                /\ UNCHANGED childRefs
    /\ UNCHANGED <<profiles, events, hop, hid>>
    /\ UNCHANGED createVars
    /\ UNCHANGED tvars

\* profileRepo.DetachChildProfileFromParent(ParentProfileID, ProfileId),
\* lines 193-196.
DeleteDetach(p) ==
    /\ hpc[p] = "d_detach"
    /\ \E ok \in StorageOutcomes :
        /\ Charged(ok)
        /\ IF ok
           THEN /\ childRefs' = RefsAfterDetach(fetched[p].parentProfileId, hid[p])
                /\ hpc' = [hpc EXCEPT ![p] = "d_self"]
                /\ UNCHANGED <<hresult, fetched, master, kids, pending>>
           ELSE /\ HReturn(p, HFailure("serverError"))
                /\ UNCHANGED childRefs
    /\ UNCHANGED <<profiles, events, hop, hid>>
    /\ UNCHANGED createVars
    /\ UNCHANGED tvars

\* profileRepo.DeleteProfile(ProfileId) as the last storage call, and the
\* return (lines 148-152, 173-177, 188-191, 197-200).
DeleteOwnRow(p) ==
    /\ hpc[p] \in OwnRowPositions
    /\ \E ok \in StorageOutcomes :
        /\ Charged(ok)
        /\ IF ok
           THEN /\ profiles' = RowDeleted(hid[p])
                /\ childRefs' = RefsAfterDelete(hid[p])
                /\ HReturn(p, HSuccess)
           ELSE /\ HReturn(p, HFailure("serverError"))
                /\ UNCHANGED <<profiles, childRefs>>
    /\ UNCHANGED <<events, hop, hid>>
    /\ UNCHANGED createVars
    /\ UNCHANGED tvars

\* ------------------------- GetAllProfiles, GetAllProfilesWithFilter
\* The order in which the repository returns rows.
IdOrder == <<"P", "C1", "C2">>

\* getAllProfiles() / getAllProfilesWithFilter(predicates): the stored rows
\* among the identifiers in keep.
RepoRows(keep) ==
    LET ids == SelectSeq(IdOrder, LAMBDA k : k \in keep /\ Stored(k))
    IN  [i \in 1..Len(ids) |-> profiles[ids[i]]]

\* The per-row overwrites of the list variants (lines 267-268, 342-343):
\* ProfileId is set to the row's, then ParentProfileID to master.ProfileId.
ListMergedView(m, requested) ==
    LET m1 == [m EXCEPT !.profileId = requested.profileId]
    IN  [m1 EXCEPT !.parentProfileId = m1.profileId]

\* The storage call of one loop iteration that fails, if any.
RowFailures == {"none"} \cup (IF CanFail THEN {"master", "app", "kids"} ELSE {})

\* One iteration of the loop over existingProfiles (lines 253-272, 328-347):
\* what it appends to result.  A parent row is appended as it is; for a
\* child row the master is read, and the row is skipped when the read fails
\* or finds nothing; the errors of the two fetches are dropped.
ListEntry(row, fail) ==
    IF row.isParent
    THEN <<[profile |-> row, childProfiles |-> <<>>]>>
    ELSE LET m == RepoGetProfile(row.parentProfileId, fail # "master")
         IN  IF m = NoProfile
             THEN <<>>
             ELSE <<[profile |->
                       ListMergedView(
                           [m EXCEPT !.applicationData =
                                FetchApplicationData(m.profileId, fail # "app")],
                           row),
                     childProfiles |-> FetchChildProfiles(m.profileId, fail # "kids")]>>

HList(entries) == [NoHResult EXCEPT !.kind = "list", !.entries = entries]

\* The list call has its rows (lines 242-248, 317-323): with none it
\* returns the empty list, otherwise the loop starts.
ListFetched(p, fetchedRows, ok) ==
    /\ Charged(ok)
    /\ IF ~ok THEN HReturn(p, HFailure("serverError"))
       ELSE IF fetchedRows = <<>> THEN HReturn(p, HList(<<>>))
       ELSE /\ hpc' = [hpc EXCEPT ![p] = "l_rows"]
            /\ pending' = [pending EXCEPT ![p] = fetchedRows]
            /\ hresult' = [hresult EXCEPT ![p] = NoHResult]
            /\ UNCHANGED <<fetched, master, kids>>
    /\ StoreUnchanged
    /\ UNCHANGED createVars
    /\ UNCHANGED tvars

\* GetAllProfiles is entered and profileRepo.GetAllProfiles() is called.
GetAllProfiles(p) ==
    \E ok \in StorageOutcomes :
        /\ HEnter(p, "resolveAll", "")
        /\ ListFetched(p, RepoRows(HierarchyIds), ok)

\* GetAllProfilesWithFilter is entered: the enrichment rules are fetched,
\* the filters rewritten, and the repository returns the rows that match
\* (lines 283-323); a failure of either storage call ends the call.
GetAllProfilesWithFilter(p) ==
    \E keep \in SUBSET HierarchyIds, ok \in StorageOutcomes :
        /\ HEnter(p, "resolveAllFiltered", "")
        /\ ListFetched(p, RepoRows(keep), ok)

\* One iteration of the loop over existingProfiles, and the return after
\* the last one.
ListRow(p) ==
    /\ hpc[p] = "l_rows"
    /\ \E fail \in (IF Head(pending[p]).isParent THEN {"none"} ELSE RowFailures) :
        LET entries == hresult[p].entries \o ListEntry(Head(pending[p]), fail)
        IN  /\ Charged(fail = "none")
            /\ IF Tail(pending[p]) = <<>>
               THEN HReturn(p, HList(entries))
               ELSE /\ pending' = [pending EXCEPT ![p] = Tail(@)]
                    /\ hresult' = [hresult EXCEPT ![p].entries = entries]
                    /\ UNCHANGED <<hpc, fetched, master, kids>>
    /\ StoreUnchanged
    /\ UNCHANGED <<hop, hid>>
    /\ UNCHANGED createVars
    /\ UNCHANGED tvars

\* ------------------------------------------- hierarchy: specification
HStep(p) ==
    \/ GetProfileMaster(p)
    \/ GetProfileApplicationData(p)
    \/ GetProfileChildren(p)
    \/ DeleteEvents(p)
    \/ DeleteFetchChildren(p)
    \/ DeleteChildGet(p)
    \/ DeleteChildRow(p)
    \/ DeleteFetchParent(p)
    \/ DeleteFetchSiblings(p)
    \/ DeleteOnlyChildParent(p)
    \/ DeleteDetach(p)
    \/ DeleteOwnRow(p)
    \/ ListRow(p)

\* The goroutines that issue read calls.  GetProfile, GetAllProfiles and
\* GetAllProfilesWithFilter write nothing, so two read calls cannot
\* influence each other: one reader next to the deleting goroutines gives
\* every read/delete and delete/delete interleaving.
Readers == {1}

HierarchyNext ==
    \/ \E p \in Readers : GetProfile(p)
    \/ \E p \in Procs : DeleteProfile(p)
    \/ \E p \in Readers : GetAllProfiles(p)
    \/ \E p \in Readers : GetAllProfilesWithFilter(p)
    \/ \E p \in Procs : HStep(p)

allVars == <<vars, hvars>>

HierarchySpec == HierarchyInit /\ [][HierarchyNext]_allVars

HierarchyTypeOK ==
    /\ hpc \in [Procs -> HIdle \cup OwnRowPositions \cup
                  {"r_master", "r_app", "r_kids", "d_events", "d_kids",
                   "d_childget", "d_childdel", "d_parent", "d_pkids",
                   "d_only1", "d_detach", "l_rows"}]
    /\ hop \in [Procs -> {"none", "resolve", "delete", "resolveAll",
                          "resolveAllFiltered"}]
    /\ events \subseteq HierarchyIds
    /\ \A k \in HierarchyIds : Stored(k) => profiles[k].profileId = k
    /\ faults \in 0..MaxFaults

\* ---------------------------------------------------- hierarchy claims
\* The children of the group: the identifiers stored with isParent false.
ChildIds == HierarchyIds \ {"P"}

\* Call p is a returned call of operation op.
HDone(p, op) == hpc[p] = "done" /\ hop[p] = op

\* No DeleteProfile call has been made by any goroutine so far.
NoDeleteYet == \A q \in Procs : hop[q] # "delete"

\* C11: merge transparency.  With the group stored and no delete made, a
\* GetProfile call for a stored child of the parent "P" that returns a
\* Profile returns one with the requested (child) profileId, parentProfileId
\* "P", and the parent's traits, identityAttributes, applicationData and
\* child list, none of the child's own traits or applicationData.
C11_MergeTransparency ==
    \A p \in Procs :
        (/\ HDone(p, "resolve") /\ hid[p] \in ChildIds
         /\ hresult[p].kind = "profile" /\ NoDeleteYet) =>
            LET r == hresult[p].profile
            IN  /\ r.profileId = hid[p]
                /\ r.parentProfileId = "P"
                /\ r.traits = profiles["P"].traits
                /\ r.identityAttributes = profiles["P"].identityAttributes
                /\ r.applicationData = profiles["P"].applicationData
                /\ hresult[p].childProfiles = childRefs["P"]
                /\ r.traits # profiles[hid[p]].traits
                /\ r.applicationData # profiles[hid[p]].applicationData

\* A returned list call of either variant.
ListDone(p) == HDone(p, "resolveAll") \/ HDone(p, "resolveAllFiltered")

\* C12: the list variants apply the same per-row merge as GetProfile.  With
\* the group stored, no delete made and no storage call failed, every entry
\* that GetAllProfiles or GetAllProfilesWithFilter returns for a child row
\* is what GetProfile returns for that child: the merged view of its parent,
\* with profileId the child's and parentProfileId the parent's.
C12_ListEntryIsResolveView ==
    \A p \in Procs :
        (ListDone(p) /\ hresult[p].kind = "list" /\ NoDeleteYet /\ faults = 0) =>
            \A i \in 1..Len(hresult[p].entries) :
                LET e == hresult[p].entries[i]
                IN  e.profile.profileId \in ChildIds =>
                        /\ e.profile = MergedView(profiles["P"],
                                                  profiles[e.profile.profileId])
                        /\ e.profile.parentProfileId = "P"
                        /\ e.childProfiles = childRefs["P"]

\* C13: a GetProfile call for an identifier that has no stored row returns
\* at once with the not-found ClientError, and a call that returns the
\* not-found error returns no Profile.
C13_AbsentIsNotFound ==
    /\ [][\A p \in Procs : (GetProfile(p) /\ ~Stored(hid'[p])) =>
              /\ hpc'[p] = "done"
              /\ hresult'[p].kind = "notFound"]_allVars
    /\ [](\A p \in Procs : hresult[p].kind = "notFound" =>
              /\ hresult[p].profile = NoProfile
              /\ hresult[p].childProfiles = <<>>)

\* GetProfile has returned not-found for an identifier that is not stored,
\* in a store that holds other profiles, with no storage call failed.
C13_Witness ==
    \E p \in Procs :
        /\ HDone(p, "resolve") /\ hresult[p].kind = "notFound"
        /\ ~Stored(hid[p]) /\ Stored("P") /\ faults = 0

\* C14: cascade, only child.  A DeleteProfile call for a child that found
\* its parent with exactly one child (the only-child branch, line 185) and
\* returned success has left neither the parent nor the child in storage.
C14_OnlyChildRemovesBoth ==
    \A p \in Procs :
        (HDone(p, "delete") /\ hresult[p].kind = "ok" /\ hresult[p].from = "d_only2") =>
            /\ ~Stored(hid[p])
            /\ ~Stored("P")

\* The rows and child lists of every identifier but k are left as they are.
OthersUntouched(k) ==
    /\ \A j \in HierarchyIds \ {k} : profiles'[j] = profiles[j]
    /\ \A j \in HierarchyIds \ {"P"} : childRefs'[j] = childRefs[j]

\* C15: cascade, sibling detach.  A DeleteProfile call for a child whose
\* parent does not have exactly one child first takes the child, and only
\* the child, out of the parent's child list, changing no row; it then
\* deletes the child's row, which by then is no longer listed, and no other
\* row and no child list; when it has returned success the child is absent
\* and no longer listed.  The parent row and the rows of the other children
\* are not touched by either step.
C15_SiblingDetach ==
    /\ [][\A p \in Procs :
            /\ (DeleteDetach(p) /\ hpc'[p] = "d_self") =>
                  /\ childRefs'["P"] = SelectSeq(childRefs["P"], LAMBDA c : c # hid[p])
                  /\ profiles' = profiles
                  /\ OthersUntouched(hid[p])
            /\ (DeleteOwnRow(p) /\ hpc[p] = "d_self") =>
                  /\ hid[p] \notin Range(childRefs["P"])
                  /\ childRefs'["P"] = childRefs["P"]
                  /\ OthersUntouched(hid[p])
                  /\ hresult'[p].kind = "ok" => ~Stored(hid[p])']_allVars
    /\ [](\A p \in Procs :
            (HDone(p, "delete") /\ hresult[p].kind = "ok" /\ hresult[p].from = "d_self") =>
                /\ ~Stored(hid[p])
                /\ hid[p] \notin Range(childRefs["P"]))

\* DeleteProfile("C1") has returned success from the detach branch, no
\* storage call failed: "P" is stored with "C2" as its only listed child,
\* "C2" is stored and "C1" is gone.
C15_Witness ==
    \E p \in Procs :
        /\ HDone(p, "delete") /\ hresult[p].kind = "ok" /\ hresult[p].from = "d_self"
        /\ hid[p] = "C1" /\ faults = 0
        /\ Stored("P") /\ Stored("C2") /\ ~Stored("C1")
        /\ childRefs["P"] = <<"C2">>

\* The stored rows that name "P" as their parent.
ChildRowsOfP == {c \in ChildIds : Stored(c) /\ profiles[c].parentProfileId = "P"}

\* No other goroutine has made a read or delete call.
Alone(p) == \A q \in Procs \ {p} : hop[q] = "none"

\* C16: cascade, parent with children.  A DeleteProfile call for the parent,
\* with no other call running beside it, removes the parent row only when
\* none of its child rows is stored any more, and when it has returned
\* success from one of its parent branches neither the parent nor any of
\* its children is left in storage.
C16_ParentCascade ==
    /\ [][\A p \in Procs :
            (/\ DeleteOwnRow(p) /\ hid[p] = "P" /\ Alone(p)
             /\ Stored("P") /\ ~Stored("P")') =>
                ChildRowsOfP = {}]_allVars
    /\ [](\A p \in Procs :
            (/\ HDone(p, "delete") /\ hid[p] = "P" /\ hresult[p].kind = "ok"
             /\ hresult[p].from \in {"d_solo", "d_master"} /\ Alone(p)) =>
                ~Stored("P") /\ ChildRowsOfP = {})

\* C17: delete is idempotent.  A DeleteProfile call for an identifier that
\* has no stored row returns success at once and changes neither the
\* profile store (rows, child lists) nor the event store; this includes a
\* second DeleteProfile of a parent that an earlier call removed.
C17_DeleteOfAbsentIsNoOp ==
    [][\A p \in Procs : (DeleteProfile(p) /\ ~Stored(hid'[p])) =>
          /\ hpc'[p] = "done"
          /\ hresult'[p].kind = "ok"
          /\ profiles' = profiles
          /\ childRefs' = childRefs
          /\ events' = events]_allVars

\* One call has removed the solo parent "P"; a second DeleteProfile("P")
\* found no row and has returned success, with no storage call failed.
C17_Witness ==
    \E p, q \in Procs :
        /\ p # q /\ hid[p] = "P" /\ hid[q] = "P" /\ faults = 0
        /\ HDone(q, "delete") /\ hresult[q].kind = "ok" /\ hresult[q].from = "d_solo"
        /\ HDone(p, "delete") /\ hresult[p].kind = "ok" /\ hresult[p].from = "entry"
        /\ ~Stored("P")

\* C18: events before rows.  Whenever a step of a DeleteProfile call removes
\* a profile row (the target's, a child's or the parent's), with no storage
\* call failed, the event store holds no event that refers to that profile
\* any more.
C18_EventsBeforeRows ==
    [][\A k \in HierarchyIds :
          (Stored(k) /\ ~Stored(k)' /\ faults' = 0) => k \notin events]_allVars

\* No read or delete call is running.
HQuiet == \A p \in Procs : hpc[p] \in HIdle

\* The hierarchy invariants of the data model: every stored profile is a
\* parent or names a stored parent that lists it, and every listed child is
\* stored.
HierarchyConsistent ==
    \A k \in HierarchyIds :
        /\ Stored(k) =>
              \/ profiles[k].isParent
              \/ /\ profiles[k].parentProfileId \in HierarchyIds
                 /\ Stored(profiles[k].parentProfileId)
                 /\ profiles[profiles[k].parentProfileId].isParent
                 /\ k \in Range(childRefs[profiles[k].parentProfileId])
        /\ \A c \in Range(childRefs[k]) : Stored(c)

\* C19: the hierarchy invariants are preserved by delete.  Starting from a
\* consistent store, once the DeleteProfile calls made so far (all by one
\* goroutine, one after the other, successful or failed) have completed,
\* the store is consistent again.
C19_DeletePreservesHierarchy ==
    (HQuiet /\ \E p \in Procs : Alone(p)) => HierarchyConsistent

\* ------------------------------------------------------------ HandleError
\* What errors.As finds in the chain of an error: a *ClientError, else a
\* *ServerError, else neither ("plain").  An error of the storage layer is a
\* ServerError or a plain error.
CauseClasses == {"server", "plain"}

\* The classes the error returned by CreateOrUpdateProfile can have, by the
\* kind of failure.  Every error is built with fmt.Errorf: the lock timeout
\* wraps nothing, the others wrap their cause with %w (the visibility
\* timeout wraps waitForProfile's error, which wraps the last read error or
\* nothing).
ChainClasses(kind) ==
    IF kind = "lockTimeout" THEN {"plain"} ELSE CauseClasses

\* The response the caller sees when the handler has returned.  HandleError
\* writes the ClientError's status code (404 for the one the core builds)
\* and its description, or 500 and a generic message for a ServerError, and
\* writes nothing for any other error: the response of a handler that never
\* wrote a status is 200 with an empty body.
HandleError(class) ==
    IF class = "client"
    THEN [status |-> 404, body |-> "description"]
    ELSE IF class = "server"
    THEN [status |-> 500, body |-> "Internal server error"]
    ELSE [status |-> 200, body |-> ""]

\* C20: failure classification towards the caller.  When no storage call
\* failed, every error that a completed CreateOrUpdateProfile call returns
\* (a lock timeout or a visibility timeout) is surfaced by HandleError as a
\* server failure with the generic message, whatever its chain holds.
C20_FailuresSurfaceAsServerFailure ==
    \A p \in Procs :
        (/\ pc[p] = "done" /\ faults = 0
         /\ result[p].kind \in {"lockTimeout", "visibilityTimeout"}) =>
            \A class \in ChainClasses(result[p].kind) :
                HandleError(class) =
                    [status |-> 500, body |-> "Internal server error"]

\* ------------------------------------------------------------------ texts
\* A Go string is the sequence of its characters.
RECURSIVE Flatten(_)
Flatten(ps) == IF ps = <<>> THEN <<>> ELSE Head(ps) \o Flatten(Tail(ps))

\* The sequences over S of length at most n.
SeqsUpTo(S, n) == UNION {[1..k -> S] : k \in 0..n}

\* The position of the first space of s, 0 when it has none.
IndexOfSpace(s) ==
    IF \E i \in 1..Len(s) : s[i] = " "
    THEN CHOOSE i \in 1..Len(s) :
            s[i] = " " /\ \A j \in 1..(i - 1) : s[j] # " "
    ELSE 0

\* strings.Split(s, " "): s cut at every space.
RECURSIVE Split(_)
Split(s) ==
    IF IndexOfSpace(s) = 0
    THEN <<s>>
    ELSE <<SubSeq(s, 1, IndexOfSpace(s) - 1)>>
            \o Split(SubSeq(s, IndexOfSpace(s) + 1, Len(s)))

\* SplitN without its limit: s cut at every space.
SplitNUnlimited(s, n) == Split(s)

\* strings.SplitN(s, " ", n) for n > 0: s cut at its first n - 1 spaces, the
\* last part being the remainder, spaces included.
RECURSIVE SplitN(_, _)
SplitN(s, n) ==
    IF n = 1 \/ IndexOfSpace(s) = 0
    THEN <<s>>
    ELSE <<SubSeq(s, 1, IndexOfSpace(s) - 1)>>
            \o SplitN(SubSeq(s, IndexOfSpace(s) + 1, Len(s)), n - 1)

\* ---------------------------------------------- parseTypedValueForFilters
Digits == {"0", "1", "2", "3", "4", "5", "6", "7", "8", "9"}

DigitValue ==
    ("0" :> 0) @@ ("1" :> 1) @@ ("2" :> 2) @@ ("3" :> 3) @@ ("4" :> 4) @@
    ("5" :> 5) @@ ("6" :> 6) @@ ("7" :> 7) @@ ("8" :> 8) @@ ("9" :> 9)

\* The largest int (64 bits) and the magnitude of the smallest, in decimal.
MaxIntText ==
    <<"9", "2", "2", "3", "3", "7", "2", "0", "3", "6",
      "8", "5", "4", "7", "7", "5", "8", "0", "7">>

MinIntMagnitude ==
    <<"9", "2", "2", "3", "3", "7", "2", "0", "3", "6",
      "8", "5", "4", "7", "7", "5", "8", "0", "8">>

TrueText == <<"t", "r", "u", "e">>

FalseText == <<"f", "a", "l", "s", "e">>

\* s without its sign.
Unsigned(s) == IF s # <<>> /\ Head(s) \in {"+", "-"} THEN Tail(s) ELSE s

Negative(s) == s # <<>> /\ Head(s) = "-"

\* The syntax strconv accepts for a base-10 integer: an optional sign and
\* one or more digits.
ValidInt(s) ==
    /\ Unsigned(s) # <<>>
    /\ \A i \in 1..Len(Unsigned(s)) : Unsigned(s)[i] \in Digits

\* A digit sequence without its leading zeros.
RECURSIVE StripZeros(_)
StripZeros(d) ==
    IF Len(d) > 1 /\ Head(d) = "0" THEN StripZeros(Tail(d)) ELSE d

\* a > b for digit sequences without leading zeros.
DigitsGreater(a, b) ==
    \/ Len(a) > Len(b)
    \/ /\ Len(a) = Len(b)
       /\ \E i \in 1..Len(a) :
            /\ DigitValue[a[i]] > DigitValue[b[i]]
            /\ \A j \in 1..(i - 1) : a[j] = b[j]

\* The decimal numeral of the integer with this sign and magnitude.
Numeral(neg, digits) ==
    IF neg /\ StripZeros(digits) # <<"0">>
    THEN <<"-">> \o StripZeros(digits)
    ELSE StripZeros(digits)

\* strconv.Atoi(s).  The int is held as its decimal numeral, for its values
\* go up to 2^63 - 1.  A text that is not an integer gives 0 and a syntax
\* error; an integer outside the range of int gives the nearest int and a
\* range error.
Atoi(s) ==
    IF ~ValidInt(s)
    THEN [value |-> <<"0">>, err |-> "syntax"]
    ELSE LET limit == IF Negative(s) THEN MinIntMagnitude ELSE MaxIntText
         IN  IF DigitsGreater(StripZeros(Unsigned(s)), limit)
             THEN [value |-> Numeral(Negative(s), limit), err |-> "range"]
             ELSE [value |-> Numeral(Negative(s), Unsigned(s)), err |-> "none"]

\* The longest digit run whose value a float64 holds exactly.
MaxExactFloatDigits == 15

\* strconv.ParseFloat(s, 64) for texts made of signs, digits and letters
\* other than those of "inf", "nan" and exponents, with at most
\* MaxExactFloatDigits digits: the value, held as the text %v prints for it
\* (a float keeps the sign of zero).
ParseFloat(s) ==
    IF ~ValidInt(s)
    THEN [value |-> <<"0">>, err |-> "syntax"]
    ELSE [value |-> (IF Negative(s) THEN <<"-">> ELSE <<>>)
                        \o StripZeros(Unsigned(s)),
          err |-> "none"]

\* parseTypedValueForFilters(valueType, raw): the errors of Atoi and
\* ParseFloat are dropped.
parseTypedValueForFilters(valueType, raw) ==
    IF valueType = "int"
    THEN [type |-> "int", value |-> Atoi(raw).value]
    ELSE IF valueType \in {"float", "double"}
    THEN [type |-> "float64", value |-> ParseFloat(raw).value]
    ELSE IF valueType = "boolean"
    THEN [type |-> "bool", value |-> raw = TrueText]
    ELSE [type |-> "string", value |-> raw]

\* The switch on the parsed value (lines 306-312): a string is taken as it
\* is, anything else is printed with %v.
ValueStr(parsed) ==
    IF parsed.type = "string" THEN parsed.value
    ELSE IF parsed.type = "bool"
    THEN (IF parsed.value THEN TrueText ELSE FalseText)
    ELSE parsed.value

\* ------------------------------------ GetAllProfilesWithFilter, Step 2-3
\* The filter expressions given to a call: up to MaxSpaces + 1 tokens, each
\* empty or "a", joined by single spaces (an empty token stands for a
\* leading, trailing or doubled space).
MaxSpaces == 3

MaxFilters == 2

RECURSIVE Join(_)
Join(tokens) ==
    IF Len(tokens) = 1 THEN Head(tokens)
    ELSE Head(tokens) \o <<" ">> \o Join(Tail(tokens))

FilterTexts ==
    {Join(ts) : ts \in SeqsUpTo({<<>>, <<"a">>}, MaxSpaces + 1) \ {<<>>}}

\* The enrichment rules of the schema: the property "a" is declared int.
EnrichmentRules == <<[PropertyName |-> <<"a">>, ValueType |-> "int"]>>

\* propertyTypeMap[field] (lines 289-292, 302): the ValueType of the last
\* rule for the field, "" when there is none.
PropertyType(rules, field) ==
    LET named == {i \in 1..Len(rules) : rules[i].PropertyName = field}
    IN  IF named = {} THEN ""
        ELSE rules[CHOOSE i \in named : \A j \in named : j <= i].ValueType

\* fmt.Sprintf("%s %s %s", field, operator, valueStr)
Sprintf3(field, operator, valueStr) ==
    field \o <<" ">> \o operator \o <<" ">> \o valueStr

\* The body of the rewrite loop for one filter that has its three parts.
RewrittenFilter(rules, parts) ==
    Sprintf3(parts[1], parts[2],
             ValueStr(parseTypedValueForFilters(PropertyType(rules, parts[1]),
                                                parts[3])))

FilterInit ==
    /\ CreateCallsAtRest
    /\ faults = 0
    /\ HierarchyCallsAtRest
    /\ HierarchyStoreEmpty
    /\ typed = [valueType |-> "", raw |-> <<>>, at |-> "idle",
                parsed |-> [type |-> "none"], valueStr |-> <<>>]
    /\ \E fs \in SeqsUpTo(FilterTexts, MaxFilters) :
          rewrite = [filters |-> fs, rules |-> EnrichmentRules, next |-> 1,
                     updatedFilters |-> <<>>]

\* One iteration of the loop over filters: the filter does not split into
\* three parts and is skipped (lines 296-300).
RewriteSkip ==
    /\ rewrite.next <= Len(rewrite.filters)
    /\ Len(SplitN(rewrite.filters[rewrite.next], 3)) # 3
    /\ rewrite' = [rewrite EXCEPT !.next = @ + 1]
    /\ UNCHANGED <<vars, hvars, typed>>

\* One iteration of the loop over filters: the filter splits into three
\* parts and its rewritten form is appended (lines 296-314).
RewriteAppend ==
    /\ rewrite.next <= Len(rewrite.filters)
    /\ LET parts == SplitN(rewrite.filters[rewrite.next], 3)
       IN  /\ Len(parts) = 3
           /\ rewrite' = [rewrite EXCEPT
                  !.next = @ + 1,
                  !.updatedFilters = Append(@, RewrittenFilter(rewrite.rules, parts))]
    /\ UNCHANGED <<vars, hvars, typed>>

FilterNext == RewriteSkip \/ RewriteAppend

FilterSpec == FilterInit /\ [][FilterNext]_rewrite

\* The positions of the spaces of a filter expression.
SpacePositions(f) == {i \in 1..Len(f) : f[i] = " "}

Least(S) == CHOOSE i \in S : \A j \in S : i <= j

\* The predicate of a filter expression with at least two spaces: the text
\* before its first space, the text between its first two spaces, and the
\* translation of everything after the second space.
PredicateOf(rules, f) ==
    LET first == Least(SpacePositions(f))
        second == Least(SpacePositions(f) \ {first})
        field == SubSeq(f, 1, first - 1)
    IN  Sprintf3(field, SubSeq(f, first + 1, second - 1),
                 ValueStr(parseTypedValueForFilters(
                              PropertyType(rules, field),
                              SubSeq(f, second + 1, Len(f)))))

\* The filters the rewrite loop has handled so far.
FiltersHandled == SubSeq(rewrite.filters, 1, rewrite.next - 1)

HasTwoSpaces(f) == Cardinality(SpacePositions(f)) >= 2

HasThreeTokens(f) == Len(Split(f)) = 3

\* C21 as stated: filter translation keeps exactly the filters of three
\* space-separated tokens, in input order; an expression of fewer or of
\* more tokens produces no predicate.
C21_KeepsExactlyThreeTokens ==
    LET kept == SelectSeq(FiltersHandled, HasThreeTokens)
    IN  /\ Len(rewrite.updatedFilters) = Len(kept)
        /\ \A k \in 1..Len(kept) :
              rewrite.updatedFilters[k] = PredicateOf(rewrite.rules, kept[k])

\* C21, amended: filter translation keeps exactly the filters with at least
\* two spaces, in input order; an expression with fewer than two spaces
\* produces no predicate, every other one produces the predicate of its
\* field, its operator and the translation of all the text after its second
\* space, at the same relative position.
C21_KeepsFiltersWithTwoSpaces ==
    LET kept == SelectSeq(FiltersHandled, HasTwoSpaces)
    IN  /\ Len(rewrite.updatedFilters) = Len(kept)
        /\ \A k \in 1..Len(kept) :
              rewrite.updatedFilters[k] = PredicateOf(rewrite.rules, kept[k])

\* The loop has ended; the first filter was dropped and the second, of four
\* non-empty tokens, gave the only predicate.
C21_Witness ==
    /\ rewrite.next > Len(rewrite.filters)
    /\ Len(rewrite.filters) = 2
    /\ ~HasTwoSpaces(rewrite.filters[1])
    /\ rewrite.filters[2] = <<"a", " ", "a", " ", "a", " ", "a">>
    /\ rewrite.updatedFilters = <<<<"a", " ", "a", " ", "0">>>>

\* ------------------------------------ one call of the typed translation
\* The raw values: up to MaxPieces pieces, each a digit, a sign, a letter,
\* "true", or the decimal text of 2^63 - 1 or of 2^63.
MaxPieces == 3

RawPieces ==
    {<<"0">>, <<"1">>, <<"-">>, <<"+">>, <<"x">>,
     TrueText, MaxIntText, MinIntMagnitude}

RawTexts == {Flatten(ps) : ps \in SeqsUpTo(RawPieces, MaxPieces)}

\* The declared types of the schema, no declared type (""), and a type the
\* switch does not name.
ValueTypes == {"int", "float", "double", "boolean", "string", "", "date"}

ParseInit ==
    /\ CreateCallsAtRest
    /\ faults = 0
    /\ HierarchyCallsAtRest
    /\ HierarchyStoreEmpty
    /\ rewrite = [filters |-> <<>>, rules |-> {}, next |-> 1,
                  updatedFilters |-> <<>>]
    /\ \E valueType \in ValueTypes, raw \in RawTexts :
          /\ valueType \in {"float", "double"} =>
                Len(Unsigned(raw)) <= MaxExactFloatDigits
          /\ typed = [valueType |-> valueType, raw |-> raw, at |-> "call",
                      parsed |-> [type |-> "none"], valueStr |-> <<>>]

\* parsed := parseTypedValueForFilters(valueType, rawValue) (line 303)
ParseTypedValue ==
    /\ typed.at = "call"
    /\ typed' = [typed EXCEPT
           !.at = "parsed",
           !.parsed = parseTypedValueForFilters(typed.valueType, typed.raw)]
    /\ UNCHANGED <<vars, hvars, rewrite>>

\* The switch that prepares valueStr (lines 306-312).
FormatValue ==
    /\ typed.at = "parsed"
    /\ typed' = [typed EXCEPT !.at = "done", !.valueStr = ValueStr(typed.parsed)]
    /\ UNCHANGED <<vars, hvars, rewrite>>

ParseNext == ParseTypedValue \/ FormatValue

ParseSpec == ParseInit /\ [][ParseNext]_typed

\* C22: filter typing.  For a field declared int the translated value is
\* the integer the raw text denotes, and 0 when the raw text is not an
\* integer; for boolean it is true exactly when the raw text is "true"; for
\* string and for a field with no declared type (or one the schema does not
\* know) the raw text is passed through unchanged.
C22_FilterTyping ==
    typed.at \in {"parsed", "done"} =>
        /\ typed.valueType = "int" =>
              typed.parsed =
                  [type |-> "int",
                   value |-> IF ValidInt(typed.raw)
                             THEN Numeral(Negative(typed.raw), Unsigned(typed.raw))
                             ELSE <<"0">>]
        /\ typed.valueType = "boolean" =>
              typed.parsed = [type |-> "bool", value |-> typed.raw = TrueText]
        /\ typed.valueType \in {"string", "", "date"} =>
              typed.parsed = [type |-> "string", value |-> typed.raw]

\* C23: release precedes session teardown.  A CreateOrUpdateProfile call
\* that leaves the part it runs with the lock held (by success, insert
\* error or visibility timeout) attempts the release next, with its session
\* still open; the release is attempted once, from there, and only then
\* does the call close its session; a call holds the lock when it enters
\* that part, and a call that did not get the lock closes its session with
\* no release attempted.  A crash of the process is not an exit path.
C23_ReleaseBeforeClose ==
    [][~Crash =>
        \A p \in Procs :
            /\ (pc[p] = "acquire" /\ pc'[p] = "insert") =>
                    lockOwner'[LockKey(id[p])] = conn[p]
            /\ (pc[p] = "acquire" /\ pc'[p] \notin {"acquire", "insert"}) =>
                    /\ pc'[p] = "close"
                    /\ result'[p].kind \in {"lockTimeout", "lockError"}
            /\ (pc[p] \in {"insert", "wait"} /\ pc'[p] \notin {"insert", "wait"}) =>
                    /\ pc'[p] = "release"
                    /\ result'[p].kind \in {"profile", "insertError",
                                            "visibilityTimeout"}
                    /\ conn'[p] = conn[p] /\ sess'[conn[p]] = "busy"
            /\ (pc[p] # "release" /\ pc'[p] = "release") =>
                    pc[p] \in {"insert", "wait"}
            /\ (pc[p] = "release" /\ pc'[p] # "release") =>
                    /\ ReleaseOk(p) \/ ReleaseFails(p)
                    /\ pc'[p] = "close"
                    /\ sess[conn[p]] = "busy" /\ sess'[conn[p]] = "busy"
            /\ (pc[p] # "close" /\ pc'[p] = "close") =>
                    pc[p] \in {"acquire", "release"}
            /\ (conn[p] # NoSession /\ conn'[p] = NoSession) =>
                    pc[p] = "close" /\ pc'[p] = "done"]_vars

\* A call whose insert failed has attempted the release, holds the lock no
\* longer and is about to close its session, while another call that was
\* denied the lock is about to close its session too.
C23_Witness ==
    \E p, q \in Procs :
        /\ pc[p] = "close" /\ result[p].kind = "insertError"
        /\ lockOwner[LockKey(id[p])] = NoSession
        /\ sess[conn[p]] = "busy"
        /\ pc[q] = "close" /\ result[q].kind = "lockTimeout"

\* C24: a failed storage read is never reported as absence.  When the fetch
\* of the target profile, a stored one, fails, GetProfile returns a server
\* error and DeleteProfile returns an error; NotFound and the no-op success
\* are returned only when the row is absent.
C24_FailedReadIsNotAbsence ==
    [][\A p \in Procs :
          /\ (GetProfile(p) /\ faults' > faults /\ Stored(hid'[p])) =>
                hresult'[p].kind = "serverError"
          /\ (DeleteProfile(p) /\ faults' > faults /\ Stored(hid'[p])) =>
                hresult'[p].kind = "serverError"
          /\ (GetProfile(p) /\ hresult'[p].kind = "notFound") =>
                ~Stored(hid'[p])
          /\ (DeleteProfile(p) /\ hpc'[p] = "done" /\ hresult'[p].kind = "ok") =>
                ~Stored(hid'[p])]_allVars

\* C25: resolve and delete always complete with a normal result.  No
\* GetProfile or DeleteProfile call ends by dereferencing a parent record
\* it did not get: every call that has ended returned a profile, success or
\* an error.
C25_NoNilDereference ==
    \A p \in Procs :
        hpc[p] = "done" =>
            hresult[p].kind \in {"profile", "ok", "list", "notFound",
                                 "serverError"}

\* The group has children: a child row is stored or the parent lists one.
GroupHasChildren == ChildRowsOfP # {} \/ childRefs["P"] # <<>>

\* C26: concurrent deletes are equivalent to some sequential order, on the
\* outcome that every sequential order of fault-free deletes has: a step
\* that leaves a group that had children with no child row and no call
\* running leaves it without the parent too (a delete of the last child
\* removes the parent, a delete of the parent removes the children first).
\* It covers two siblings deleted concurrently and a parent deleted
\* concurrently with one of its children.
C26_ConcurrentDeletesAsSequential ==
    [][(/\ GroupHasChildren
        /\ faults' = 0 /\ HQuiet' /\ ChildRowsOfP' = {}) =>
            ~Stored("P")']_allVars

====
